---- MODULE Spec2Model ----
(***************************************************************************)
(* Model of streamlit_app.py: the NBA draft point-guard height chatbot.    *)
(*                                                                         *)
(* Text is modelled as TLA+ strings, taken apart with Len, SubSeq and \o,  *)
(* so that the substring tests, the regular expressions and the string     *)
(* clean-up of the source are computed character by character.  A Python   *)
(* optional value is the tuple <<>> (None) or <<v>> (the value v).         *)
(***************************************************************************)
EXTENDS Integers, Sequences, FiniteSets, TLC

VARIABLES df_master, chat_history, last_build, last_stored, call

vars == <<df_master, chat_history, last_build, last_stored, call>>

None == <<>>

Some(v) == <<v>>

(***************************************************************************)
(* Characters and the str methods the source uses.                         *)
(***************************************************************************)
Char(s, i) == SubSeq(s, i, i)

Digits == "0123456789"

UpperLetters == "ABCDEFGHIJKLMNOPQRSTUVWXYZ"

LowerLetters == "abcdefghijklmnopqrstuvwxyz"

CharsOf(s) == {Char(s, i) : i \in 1..Len(s)}

DigitChars == CharsOf(Digits)

UpperChars == CharsOf(UpperLetters)

\* \w of the re module, on ASCII text
WordChars == CharsOf(Digits) \cup CharsOf(UpperLetters) \cup CharsOf(LowerLetters) \cup {"_"}

IsDigit(c) == c \in DigitChars

IsWordChar(c) == c \in WordChars

IsSpace(c) == c \in {" ", "\t", "\n"}

DigitValue(c) == CHOOSE d \in 0..9 : Char(Digits, d + 1) = c

RECURSIVE ParseInt(_)
\* int(s) of a string of decimal digits
ParseInt(s) ==
    IF Len(s) = 0 THEN 0
    ELSE 10 * ParseInt(SubSeq(s, 1, Len(s) - 1)) + DigitValue(Char(s, Len(s)))

LowerChar(c) ==
    IF c \in UpperChars
    THEN Char(LowerLetters, CHOOSE i \in 1..26 : Char(UpperLetters, i) = c)
    ELSE c

RECURSIVE Lower(_)
\* str.lower()
Lower(s) == IF Len(s) = 0 THEN "" ELSE LowerChar(Char(s, 1)) \o Lower(SubSeq(s, 2, Len(s)))

\* sub in s
Contains(s, sub) == \E i \in 1..(Len(s) - Len(sub) + 1) : SubSeq(s, i, i + Len(sub) - 1) = sub

RECURSIVE Replace(_, _, _)
\* str.replace(old, new), old not empty: every occurrence, left to right
Replace(s, old, new) ==
    IF Len(s) < Len(old) THEN s
    ELSE IF SubSeq(s, 1, Len(old)) = old
         THEN new \o Replace(SubSeq(s, Len(old) + 1, Len(s)), old, new)
         ELSE Char(s, 1) \o Replace(SubSeq(s, 2, Len(s)), old, new)

RECURSIVE LStrip(_)
LStrip(s) == IF Len(s) > 0 /\ IsSpace(Char(s, 1)) THEN LStrip(SubSeq(s, 2, Len(s))) ELSE s

RECURSIVE RStrip(_)
RStrip(s) == IF Len(s) > 0 /\ IsSpace(Char(s, Len(s))) THEN RStrip(SubSeq(s, 1, Len(s) - 1)) ELSE s

\* str.strip()
Strip(s) == RStrip(LStrip(s))

(***************************************************************************)
(* is_point_guard                                                          *)
(***************************************************************************)
\* a plausible slip: the test is made on the text as given, not lower-cased
is_point_guard_case_sensitive(position_str) ==
    IF position_str = None \/ position_str = Some("") THEN FALSE
    ELSE LET p == position_str[1] IN
         IF Contains(p, "point guard") \/ Contains(p, "pg") THEN TRUE
         ELSE IF Contains(p, "guard") /\ ~Contains(p, "forward") /\ ~Contains(p, "center") THEN TRUE
         ELSE FALSE

is_point_guard(position_str) ==
    IF position_str = None \/ position_str = Some("") THEN FALSE
    ELSE LET p == Lower(position_str[1]) IN
         IF Contains(p, "point guard") \/ Contains(p, "pg") THEN TRUE
         ELSE IF Contains(p, "guard") /\ ~Contains(p, "forward") /\ ~Contains(p, "center") THEN TRUE
         ELSE FALSE

(***************************************************************************)
(* parse_user_question                                                     *)
(***************************************************************************)
\* \b(19|20)\d{2}\b matches at index i of question
YearMatchAt(question, i) ==
    /\ i + 3 <= Len(question)
    /\ i = 1 \/ ~IsWordChar(Char(question, i - 1))
    /\ SubSeq(question, i, i + 1) \in {"19", "20"}
    /\ IsDigit(Char(question, i + 2))
    /\ IsDigit(Char(question, i + 3))
    /\ i + 3 = Len(question) \/ ~IsWordChar(Char(question, i + 4))

RECURSIVE FindYears(_, _)
\* re.findall from index i on: the matches left to right, none overlapping,
\* each converted with int()
FindYears(question, i) ==
    IF i + 3 > Len(question) THEN <<>>
    ELSE IF YearMatchAt(question, i)
         THEN <<ParseInt(SubSeq(question, i, i + 3))>> \o FindYears(question, i + 4)
         ELSE FindYears(question, i + 1)

SeqMin(q) == CHOOSE x \in {q[i] : i \in DOMAIN q} : \A i \in DOMAIN q : x <= q[i]

SeqMax(q) == CHOOSE x \in {q[i] : i \in DOMAIN q} : \A i \in DOMAIN q : x >= q[i]

\* a plausible slip: the range runs from the first year written to the last
parse_user_question_text_order(question) ==
    LET years == FindYears(question, 1) IN
    IF years = <<>>
    THEN [year_min |-> None, year_max |-> None, found_year_range |-> FALSE]
    ELSE [year_min |-> Some(years[1]), year_max |-> Some(years[Len(years)]),
          found_year_range |-> TRUE]

parse_user_question(question) ==
    LET years == FindYears(question, 1) IN
    IF years = <<>>
    THEN [year_min |-> None, year_max |-> None, found_year_range |-> FALSE]
    ELSE [year_min |-> Some(SeqMin(years)), year_max |-> Some(SeqMax(years)),
          found_year_range |-> TRUE]

(***************************************************************************)
(* scrape_player_details                                                   *)
(***************************************************************************)
RECURSIVE DigitRunEnd(_, _)
\* the last index of the longest run of digits that starts at index i
DigitRunEnd(s, i) ==
    IF i + 1 <= Len(s) /\ IsDigit(Char(s, i + 1)) THEN DigitRunEnd(s, i + 1) ELSE i

RECURSIVE HeightSearch(_, _)
\* re.search(r'(\d+)-(\d+)', s) from index i on: None, or the two groups of
\* the leftmost match, each group as long as it can be
HeightSearch(s, i) ==
    IF i > Len(s) THEN None
    ELSE IF ~IsDigit(Char(s, i)) THEN HeightSearch(s, i + 1)
    ELSE LET j == DigitRunEnd(s, i) IN
         IF j + 2 <= Len(s) /\ Char(s, j + 1) = "-" /\ IsDigit(Char(s, j + 2))
         THEN Some(<<SubSeq(s, i, j), SubSeq(s, j + 2, DigitRunEnd(s, j + 2))>>)
         ELSE HeightSearch(s, i + 1)

\* a plausible slip: the inches are clamped to 0..11
height_from_text_clamped(parent_text) ==
    LET match == HeightSearch(parent_text, 1) IN
    IF match = None THEN None
    ELSE LET ft == ParseInt(match[1][1])
             inch == ParseInt(match[1][2])
         IN  Some(ft * 12 + (IF inch > 11 THEN 11 ELSE inch))

\* the height step: None when nothing matches (height_inches keeps its value)
height_from_text(parent_text) ==
    LET match == HeightSearch(parent_text, 1) IN
    IF match = None THEN None
    ELSE LET ft == ParseInt(match[1][1])
             inch == ParseInt(match[1][2])
         IN  Some(ft * 12 + inch)

RECURSIVE StrongLoop(_, _, _, _)
\* for s in strong_tags, from tag i on, with the values found so far
StrongLoop(strong_tags, i, position, height_inches) ==
    IF i > Len(strong_tags)
    THEN [position |-> position, height_inches |-> height_inches]
    ELSE LET label == strong_tags[i].label
             parent_text == strong_tags[i].parent_text
             pos2 == IF Contains(label, "Position:")
                     THEN Some(Strip(Replace(parent_text, "Position:", "")))
                     ELSE position
             h == height_from_text(parent_text)
             h2 == IF Contains(label, "Height:") /\ h # None THEN h ELSE height_inches
         IN  StrongLoop(strong_tags, i + 1, pos2, h2)

\* resp is the answer to requests.get(full_url): its status, whether the
\* document has the div of id "meta", and that div's strong tags in order
scrape_player_details(resp) ==
    IF resp.status_code # 200 THEN [position |-> None, height_inches |-> None]
    ELSE IF ~resp.meta THEN [position |-> None, height_inches |-> None]
    ELSE StrongLoop(resp.strong_tags, 1, None, None)

(***************************************************************************)
(* get_avg_pg_height_by_team                                               *)
(*                                                                         *)
(* A data frame is the sequence of its rows, a row a record.  A mean is    *)
(* the exact fraction [num, den] of the sum of the known heights over      *)
(* their number; den = 0 is NaN, the mean pandas gives a group in which    *)
(* no height is known.  Heights are small integers, so comparing the       *)
(* fractions is comparing the floats.                                      *)
(***************************************************************************)
\* the characters of the model's team names, in code point order
CodePoints == " -0123456789ABCDEFGHIJKLMNOPQRSTUVWXYZ_abcdefghijklmnopqrstuvwxyz"

Ord(c) == CHOOSE i \in 1..Len(CodePoints) : Char(CodePoints, i) = c

RECURSIVE StrLess(_, _)
\* a < b on str
StrLess(a, b) ==
    IF Len(b) = 0 THEN FALSE
    ELSE IF Len(a) = 0 THEN TRUE
    ELSE IF Char(a, 1) = Char(b, 1) THEN StrLess(SubSeq(a, 2, Len(a)), SubSeq(b, 2, Len(b)))
    ELSE Ord(Char(a, 1)) < Ord(Char(b, 1))

RECURSIVE SumHeights(_)
\* the sum of the known heights of rows
SumHeights(rows) ==
    IF rows = <<>> THEN 0
    ELSE (IF Head(rows).height_inches = None THEN 0 ELSE Head(rows).height_inches[1])
         + SumHeights(Tail(rows))

HasHeight(r) == r.height_inches # None

IsNaN(avg) == avg.den = 0

\* a > b on two means that are not NaN
AvgGreater(a, b) == a.num * b.den > b.num * a.den

AvgEqual(a, b) == a.num * b.den = b.num * a.den

RECURSIVE SortedKeys(_)
\* the group keys in ascending order: groupby sorts its groups by key
SortedKeys(keys) ==
    IF keys = {} THEN <<>>
    ELSE LET k == CHOOSE x \in keys : \A y \in keys \ {x} : StrLess(x, y)
         IN  <<k>> \o SortedKeys(keys \ {k})

\* a plausible slip: the count is taken over the heights, so that a point guard
\* of unknown height is not counted
AggRowCountingHeights(team, rows) ==
    LET known == SelectSeq(rows, HasHeight) IN
    [team |-> team,
     avg_height_in |-> [num |-> SumHeights(known), den |-> Len(known)],
     count_pgs |-> Len(known)]

\* .agg(avg_height_in=('height_inches','mean'), count_pgs=('player_name','count'))
\* on one group: mean skips the unknown heights; count counts the player names
\* that are not null, and a player name is always a str
AggRow(team, rows) ==
    LET known == SelectSeq(rows, HasHeight) IN
    [team |-> team,
     avg_height_in |-> [num |-> SumHeights(known), den |-> Len(known)],
     count_pgs |-> Len(rows)]

GroupByTeam(rows) ==
    LET keys == SortedKeys({rows[i].team : i \in DOMAIN rows})
    IN  [k \in DOMAIN keys |->
            LET InGroup(r) == r.team = keys[k] IN AggRow(keys[k], SelectSeq(rows, InGroup))]

RECURSIVE InsertDesc(_, _)
\* x put into the descending sequence sorted, behind the rows of equal mean
InsertDesc(x, sorted) ==
    IF sorted = <<>> THEN <<x>>
    ELSE IF AvgGreater(x.avg_height_in, Head(sorted).avg_height_in)
         THEN <<x>> \o sorted
         ELSE <<Head(sorted)>> \o InsertDesc(x, Tail(sorted))

RECURSIVE SortDesc(_)
SortDesc(rows) ==
    IF rows = <<>> THEN <<>>
    ELSE InsertDesc(rows[Len(rows)], SortDesc(SubSeq(rows, 1, Len(rows) - 1)))

RowIsNaN(r) == IsNaN(r.avg_height_in)

RowNotNaN(r) == ~IsNaN(r.avg_height_in)

\* a plausible slip: the default, ascending order
sort_values_ascending(grouped) ==
    LET desc == SortDesc(SelectSeq(grouped, RowNotNaN))
    IN  [i \in DOMAIN desc |-> desc[Len(desc) + 1 - i]] \o SelectSeq(grouped, RowIsNaN)

\* .sort_values('avg_height_in', ascending=False): the NaN rows go last; the
\* sort is numpy's quicksort, which sorts fewer than 17 values by insertion, so
\* that rows of equal mean keep the order they come in
sort_values(grouped) ==
    SortDesc(SelectSeq(grouped, RowNotNaN)) \o SelectSeq(grouped, RowIsNaN)

\* a plausible slip: the lower bound is exclusive
FilterYearsExclusive(df, year_min, year_max) ==
    LET AboveMin(r) == year_min = None \/ r.year > year_min[1]
        BelowMax(r) == year_max = None \/ r.year <= year_max[1]
    IN  SelectSeq(SelectSeq(df, AboveMin), BelowMax)

FilterYears(df, year_min, year_max) ==
    LET AboveMin(r) == year_min = None \/ r.year >= year_min[1]
        BelowMax(r) == year_max = None \/ r.year <= year_max[1]
    IN  SelectSeq(SelectSeq(df, AboveMin), BelowMax)

IsPG(r) == r.is_pg = TRUE

get_avg_pg_height_by_team(df, year_min, year_max) ==
    LET df_filtered == SelectSeq(FilterYears(df, year_min, year_max), IsPG) IN
    IF df_filtered = <<>> THEN <<>>
    ELSE sort_values(GroupByTeam(df_filtered))

(***************************************************************************)
(* The session: st.session_state.df_master and .chat_history, each None    *)
(* while its key is missing or holds None, and two records of what the     *)
(* script did: last_build, the latest click on "Scrape & Build Dataset",   *)
(* and last_stored, the latest one that reached the assignment of          *)
(* df_master.  call is one call of a helper function with its argument.    *)
(***************************************************************************)
NoBuild == [outcome |-> "none"]

NoCall == [fn |-> "none"]

SessionInit ==
    /\ df_master = None
    /\ chat_history = None
    /\ last_build = NoBuild
    /\ last_stored = NoBuild

session == <<df_master, chat_history, last_build, last_stored>>

RECURSIVE Texts(_, _)
\* the texts made of at most n of the fragments
Texts(fragments, n) ==
    IF n = 0 THEN {""}
    ELSE {""} \cup {f \o t : f \in fragments, t \in Texts(fragments, n - 1)}

(***************************************************************************)
(* is_point_guard on position texts                                        *)
(***************************************************************************)
MaxPositionFragments == 3

PositionFragments ==
    {"Point Guard", "Point", " ", "Guard", "Forward", "Center", "-", "P", "G", "Shooting", "Power"}

PositionInputs == {None} \cup {Some(t) : t \in Texts(PositionFragments, MaxPositionFragments)}

InitClassify ==
    /\ SessionInit
    /\ call \in {[fn |-> "is_point_guard", arg |-> a, done |-> FALSE, ret |-> None] :
                    a \in PositionInputs}

ClassifyCall ==
    /\ call.fn = "is_point_guard"
    /\ ~call.done
    /\ call' = [call EXCEPT !.done = TRUE, !.ret = Some(is_point_guard(call.arg))]
    /\ UNCHANGED session

SpecClassify == InitClassify /\ [][ClassifyCall]_vars

\* word occurs in text, whatever the case of the letters of text
HasWord(text, word) ==
    \E i \in 1..(Len(text) - Len(word) + 1) : Lower(SubSeq(text, i, i + Len(word) - 1)) = word

(* C4: is_point_guard is false on None and on the empty text; otherwise it is
   true exactly when the text, read without regard to case, contains "point
   guard" or "pg", or contains "guard" and neither "forward" nor "center".
   "Point Guard", "Shooting Guard" and "PG" are point guards; "Guard-Forward",
   "Power Forward" and None are not. *)
C4_ClassifierRules ==
    (call.fn = "is_point_guard" /\ call.done) =>
        LET a == call.arg
            r == call.ret[1]
        IN  /\ (a = None \/ a = Some("")) => r = FALSE
            /\ (a # None /\ a # Some("")) =>
                   r = (\/ HasWord(a[1], "point guard")
                        \/ HasWord(a[1], "pg")
                        \/ /\ HasWord(a[1], "guard")
                           /\ ~HasWord(a[1], "forward")
                           /\ ~HasWord(a[1], "center"))
            /\ a \in {Some("Point Guard"), Some("Shooting Guard"), Some("PG")} => r = TRUE
            /\ a \in {Some("Guard-Forward"), Some("Power Forward"), None} => r = FALSE

C4_Witness ==
    /\ call.fn = "is_point_guard"
    /\ call.done
    /\ call.arg = Some("Shooting Guard")
    /\ call.ret = Some(TRUE)

(***************************************************************************)
(* parse_user_question on question texts                                   *)
(***************************************************************************)
MaxQuestionFragments == 4

QuestionFragments == {"1999", "2010", "2000", "20", "1", " ", "a", "-"}

InitParse ==
    /\ SessionInit
    /\ call \in {[fn |-> "parse_user_question", arg |-> q, done |-> FALSE, ret |-> None] :
                    q \in Texts(QuestionFragments, MaxQuestionFragments)}

ParseCall ==
    /\ call.fn = "parse_user_question"
    /\ ~call.done
    /\ call' = [call EXCEPT !.done = TRUE, !.ret = Some(parse_user_question(call.arg))]
    /\ UNCHANGED session

SpecParse == InitParse /\ [][ParseCall]_vars

\* the indices of q at which four digits beginning with 19 or 20 start
YearStarts(q) ==
    {i \in 1..(Len(q) - 3) :
        /\ SubSeq(q, i, i + 1) \in {"19", "20"}
        /\ IsDigit(Char(q, i + 2))
        /\ IsDigit(Char(q, i + 3))}

\* those with no letter, digit or underscore right before or right after
DelimitedYearStarts(q) ==
    {i \in YearStarts(q) :
        /\ i = 1 \/ ~IsWordChar(Char(q, i - 1))
        /\ i + 3 = Len(q) \/ ~IsWordChar(Char(q, i + 4))}

YearsAt(q, starts) == {ParseInt(SubSeq(q, i, i + 3)) : i \in starts}

SetMin(S) == CHOOSE x \in S : \A y \in S : x <= y

SetMax(S) == CHOOSE x \in S : \A y \in S : x >= y

\* the result r of parse_user_question is the one the years found give
RangeOverYears(r, found) ==
    /\ r.found_year_range = (found # {})
    /\ found # {} =>
          /\ r.year_min = Some(SetMin(found))
          /\ r.year_max = Some(SetMax(found))
          /\ r.year_min[1] <= r.year_max[1]
          /\ Cardinality(found) = 1 => r.year_min = r.year_max
    /\ found = {} => r.year_min = None /\ r.year_max = None

(* C5, as amended: found_year_range is true if and only if the text contains
   four digits beginning with 19 or 20 that have no letter, digit or
   underscore right before or right after them; then year_min is the least
   and year_max the greatest of these years, in whatever order they are
   written, so year_min <= year_max; otherwise both are None. *)
C5_DelimitedYears ==
    (call.fn = "parse_user_question" /\ call.done) =>
        RangeOverYears(call.ret[1], YearsAt(call.arg, DelimitedYearStarts(call.arg)))

(* C5, as claimed: found_year_range is true if and only if the text contains
   a 4-digit substring beginning with 19 or 20, and the bounds are the least
   and the greatest of these. *)
C5_AnySubstring ==
    (call.fn = "parse_user_question" /\ call.done) =>
        RangeOverYears(call.ret[1], YearsAt(call.arg, YearStarts(call.arg)))

C5_Witness ==
    /\ call.fn = "parse_user_question"
    /\ call.done
    /\ call.arg = "2010 1999"
    /\ call.ret = Some([year_min |-> Some(1999), year_max |-> Some(2010),
                        found_year_range |-> TRUE])

(***************************************************************************)
(* The height step of scrape_player_details on text fragments              *)
(***************************************************************************)
MaxHeightFragments == 4

HeightFragments == {"Height: ", "6", "13", "1", "-", " ", "(190cm)", "a"}

InitHeight ==
    /\ SessionInit
    /\ call \in {[fn |-> "height_from_text", arg |-> t, done |-> FALSE, ret |-> None] :
                    t \in Texts(HeightFragments, MaxHeightFragments)}

HeightCall ==
    /\ call.fn = "height_from_text"
    /\ ~call.done
    /\ call' = [call EXCEPT !.done = TRUE, !.ret = Some(height_from_text(call.arg))]
    /\ UNCHANGED session

SpecHeight == InitHeight /\ [][HeightCall]_vars

AllDigits(s) == Len(s) > 0 /\ \A i \in 1..Len(s) : IsDigit(Char(s, i))

\* <<i, j, k>>: t[i..j] is digits, t[j+1] the hyphen, t[j+2..k] digits
HeightForms(t) ==
    UNION {{<<i, h - 1, k>> : i \in {x \in 1..(h - 1) : AllDigits(SubSeq(t, x, h - 1))},
                              k \in {y \in (h + 1)..Len(t) : AllDigits(SubSeq(t, h + 1, y))}} :
           h \in {x \in 1..Len(t) : Char(t, x) = "-"}}

\* the first of them, and of those that start there the longest
FirstHeightForm(t) ==
    CHOOSE m \in HeightForms(t) :
        \A n \in HeightForms(t) : m[1] < n[1] \/ (m[1] = n[1] /\ m[3] >= n[3])

(* C6: the height step gives F*12+I for the first <digits>-<digits> of the
   fragment, I taken as written and not clamped ("6-13" gives 85), and None,
   not zero or another number, when the fragment holds no such substring. *)
C6_HeightParser ==
    (call.fn = "height_from_text" /\ call.done) =>
        LET t == call.arg IN
        /\ HeightForms(t) = {} => call.ret[1] = None
        /\ HeightForms(t) # {} =>
              LET m == FirstHeightForm(t) IN
              call.ret[1] = Some(ParseInt(SubSeq(t, m[1], m[2])) * 12
                                 + ParseInt(SubSeq(t, m[2] + 2, m[3])))
        /\ t = "6-13" => call.ret[1] = Some(85)

C6_Witness ==
    /\ call.fn = "height_from_text"
    /\ call.done
    /\ call.arg = "6-13"
    /\ call.ret = Some(Some(85))

(***************************************************************************)
(* get_avg_pg_height_by_team on data frames and year bounds                *)
(***************************************************************************)
MaxRows == 3

RECURSIVE SeqsUpTo(_, _)
\* the sequences of at most n elements of S
SeqsUpTo(S, n) ==
    IF n = 0 THEN {<<>>}
    ELSE {<<>>} \cup {<<x>> \o q : x \in S, q \in SeqsUpTo(S, n - 1)}

AggTeams == {"ATL", "BOS"}

AggYears == {1995, 2005}

AggYearBounds == {None, Some(1995), Some(2005)}

\* point guards of unknown height or 72 or 74 inches tall, and taller others
AggRows ==
    [year : AggYears, team : AggTeams, player_name : {"P"},
     height_inches : {None, Some(72), Some(74)}, is_pg : {TRUE}]
    \cup
    [year : AggYears, team : AggTeams, player_name : {"P"},
     height_inches : {Some(80)}, is_pg : {FALSE}]

InitAgg ==
    /\ SessionInit
    /\ call \in {[fn |-> "get_avg_pg_height_by_team", arg |-> a, done |-> FALSE, ret |-> None] :
                    a \in [df : SeqsUpTo(AggRows, MaxRows),
                           year_min : AggYearBounds, year_max : AggYearBounds]}

AggCall ==
    /\ call.fn = "get_avg_pg_height_by_team"
    /\ ~call.done
    /\ call' = [call EXCEPT !.done = TRUE,
                            !.ret = Some(get_avg_pg_height_by_team(
                                            call.arg.df, call.arg.year_min, call.arg.year_max))]
    /\ UNCHANGED session

SpecAgg == InitAgg /\ [][AggCall]_vars

AggDone == call.fn = "get_avg_pg_height_by_team" /\ call.done

\* the indices of the rows of the call's data frame that are point guards of
\* a year within the call's bounds
Qualifying ==
    {i \in DOMAIN call.arg.df :
        /\ call.arg.df[i].is_pg
        /\ call.arg.year_min = None \/ call.arg.df[i].year >= call.arg.year_min[1]
        /\ call.arg.year_max = None \/ call.arg.df[i].year <= call.arg.year_max[1]}

QualifyingOf(team) == {i \in Qualifying : call.arg.df[i].team = team}

KnownOf(team) == {i \in QualifyingOf(team) : call.arg.df[i].height_inches # None}

RECURSIVE HeightSum(_)
\* the sum of the heights of the rows of the call's data frame at the indices S
HeightSum(S) ==
    IF S = {} THEN 0
    ELSE LET i == CHOOSE x \in S : TRUE
         IN  call.arg.df[i].height_inches[1] + HeightSum(S \ {i})

\* avg is the arithmetic mean of the known heights of team's qualifying rows
IsMeanOf(avg, team) ==
    IF KnownOf(team) = {} THEN avg.den = 0
    ELSE avg.den > 0 /\ avg.num * Cardinality(KnownOf(team)) = HeightSum(KnownOf(team)) * avg.den

(* C1, as amended: in every row returned, avg_height_in is the arithmetic mean
   of height_inches over the team's in-window point-guard records of known
   height (NaN when the team has none), and count_pgs is the number of all
   the team's in-window point-guard records: one of unknown height is left
   out of the mean and is counted in count_pgs. *)
C1_MeanAndCountOfAll ==
    AggDone =>
        \A k \in DOMAIN call.ret[1] :
            LET r == call.ret[1][k] IN
            /\ IsMeanOf(r.avg_height_in, r.team)
            /\ r.count_pgs = Cardinality(QualifyingOf(r.team))

(* C1, as claimed: avg_height_in is the mean over the team's in-window
   point-guard records of known height and count_pgs is the number of those
   same records. *)
C1_MeanAndCountOfKnown ==
    AggDone =>
        \A k \in DOMAIN call.ret[1] :
            LET r == call.ret[1][k] IN
            /\ KnownOf(r.team) # {} => IsMeanOf(r.avg_height_in, r.team)
            /\ r.count_pgs = Cardinality(KnownOf(r.team))

C1_Witness ==
    /\ AggDone
    /\ \E k \in DOMAIN call.ret[1] :
          /\ call.ret[1][k].avg_height_in = [num |-> 146, den |-> 2]
          /\ call.ret[1][k].count_pgs = 3

(* C2: a row is returned for team T, and only one, if and only if the data
   frame has a point-guard record of team T with its year within the
   inclusive bounds, a missing bound leaving that side open; every row has
   count_pgs >= 1; when no record qualifies the result is empty. *)
C2_RowsAreQualifyingTeams ==
    AggDone =>
        LET ret == call.ret[1]
            teams == {call.arg.df[i].team : i \in Qualifying}
        IN  /\ {ret[k].team : k \in DOMAIN ret} = teams
            /\ Len(ret) = Cardinality(teams)
            /\ \A k \in DOMAIN ret : ret[k].count_pgs >= 1
            /\ Qualifying = {} => ret = <<>>

C2_Witness ==
    /\ AggDone
    /\ call.arg.year_min = Some(2005)
    /\ call.arg.year_max = None
    /\ \E i \in DOMAIN call.arg.df : call.arg.df[i].is_pg /\ call.arg.df[i].year = 1995
    /\ Len(call.ret[1]) = 1

\* rows of defined mean come in descending order of it
Descending(ret) ==
    \A k, l \in DOMAIN ret :
        (k < l /\ ~RowIsNaN(ret[k]) /\ ~RowIsNaN(ret[l])) =>
            ~AvgGreater(ret[l].avg_height_in, ret[k].avg_height_in)

\* the index at which team is first seen in the call's data frame, and among
\* its qualifying rows
FirstSeen(team) == SetMin({i \in DOMAIN call.arg.df : call.arg.df[i].team = team})

FirstQualifying(team) == SetMin(QualifyingOf(team))

(* C3, as amended: the rows come in descending order of avg_height_in, those
   whose mean is NaN last.  (Teams of equal mean are not kept in first-seen
   order.) *)
C3_DescendingNaNLast ==
    AggDone =>
        LET ret == call.ret[1] IN
        /\ Descending(ret)
        /\ \A k, l \in DOMAIN ret : (k < l /\ RowIsNaN(ret[k])) => RowIsNaN(ret[l])

(* C3, as claimed: the rows come in descending order of avg_height_in and two
   teams of equal mean come in the order in which they were first seen in the
   input (read here in the claim's favour: first seen in the whole data frame,
   or first seen among the qualifying rows). *)
C3_TiesInFirstSeenOrder ==
    AggDone =>
        LET ret == call.ret[1] IN
        /\ Descending(ret)
        /\ \A k, l \in DOMAIN ret :
              (/\ k < l
               /\ ~RowIsNaN(ret[k])
               /\ ~RowIsNaN(ret[l])
               /\ AvgEqual(ret[k].avg_height_in, ret[l].avg_height_in)) =>
                  \/ FirstSeen(ret[k].team) < FirstSeen(ret[l].team)
                  \/ FirstQualifying(ret[k].team) < FirstQualifying(ret[l].team)

C3_Witness ==
    /\ AggDone
    /\ Len(call.ret[1]) = 2
    /\ call.ret[1][1].team = "BOS"
    /\ call.ret[1][2].team = "ATL"
    /\ AvgGreater(call.ret[1][1].avg_height_in, call.ret[1][2].avg_height_in)

(***************************************************************************)
(* scrape_draft_data                                                       *)
(*                                                                         *)
(* resp is the answer to requests.get(url): its status, whether the        *)
(* document has the table of id "stats", whether that table has a tbody,   *)
(* and the tr elements of the tbody in order.  A tr is whether its class   *)
(* holds "thead" and its th and td cells; a cell is its stripped text and  *)
(* the href of its first a element (None without one).                     *)
(***************************************************************************)
NormalizeRow(year, row) ==
    LET href == row.cols[3].href IN
    [year |-> year,
     pick |-> row.cols[1].text,
     team |-> row.cols[2].text,
     player_name |-> row.cols[3].text,
     player_link |-> IF href = None \/ href = Some("") THEN None ELSE href]

IsDataRow(row) == ~row.thead /\ Len(row.cols) >= 3

\* [raised, rows]: raised when the table has no tbody (None.find_all)
scrape_draft_data(year, resp) ==
    IF resp.status_code # 200 THEN [raised |-> FALSE, rows |-> <<>>]
    ELSE IF ~resp.table THEN [raised |-> FALSE, rows |-> <<>>]
    ELSE IF ~resp.tbody THEN [raised |-> TRUE, rows |-> <<>>]
    ELSE LET data == SelectSeq(resp.rows, IsDataRow)
         IN  [raised |-> FALSE, rows |-> [i \in DOMAIN data |-> NormalizeRow(year, data[i])]]

(***************************************************************************)
(* main: the click on "Scrape & Build Dataset"                             *)
(***************************************************************************)
RECURSIVE ScrapeYearsExclusive(_, _, _, _, _)
\* a plausible slip: range(year_range[0], year_range[1]) leaves the last year out
ScrapeYearsExclusive(y, last, web, all_rows, visited) ==
    IF y >= last THEN [raised |-> FALSE, all_rows |-> all_rows, visited |-> visited]
    ELSE LET draft == scrape_draft_data(y, web[y]) IN
         IF draft.raised
         THEN [raised |-> TRUE, all_rows |-> all_rows, visited |-> Append(visited, y)]
         ELSE ScrapeYearsExclusive(y + 1, last, web, all_rows \o draft.rows, Append(visited, y))

RECURSIVE ScrapeYears(_, _, _, _, _)
\* for y in range(year_range[0], year_range[1]+1), from year y on: web[y] is
\* the answer to the request for year y; visited lists the years requested
ScrapeYears(y, last, web, all_rows, visited) ==
    IF y > last THEN [raised |-> FALSE, all_rows |-> all_rows, visited |-> visited]
    ELSE LET draft == scrape_draft_data(y, web[y]) IN
         IF draft.raised
         THEN [raised |-> TRUE, all_rows |-> all_rows, visited |-> Append(visited, y)]
         ELSE ScrapeYears(y + 1, last, web, all_rows \o draft.rows, Append(visited, y))

(***************************************************************************)
(* The documents the site answers with.                                    *)
(***************************************************************************)
Cell(text) == [text |-> text, href |-> None]

LinkCell(text, href) == [text |-> text, href |-> Some(href)]

DraftFailed == [status_code |-> 404, table |-> FALSE, tbody |-> FALSE, rows |-> <<>>]

DraftNoTable == [status_code |-> 200, table |-> FALSE, tbody |-> FALSE, rows |-> <<>>]

DraftNoTbody == [status_code |-> 200, table |-> TRUE, tbody |-> FALSE, rows |-> <<>>]

\* a header row, a pick with a profile link, a row of two cells, a pick without
DraftPageA ==
    [status_code |-> 200, table |-> TRUE, tbody |-> TRUE,
     rows |-> << [thead |-> TRUE, cols |-> <<Cell("Pk"), Cell("Tm"), Cell("Player")>>],
                 [thead |-> FALSE,
                  cols |-> <<Cell("1"), Cell("BOS"), LinkCell("Al", "/players/a/al01.html")>>],
                 [thead |-> FALSE, cols |-> <<Cell("Round 2"), Cell("")>>],
                 [thead |-> FALSE, cols |-> <<Cell("2"), Cell("ATL"), Cell("Cy")>>] >>]

DraftResponses == {DraftFailed, DraftNoTable, DraftNoTbody, DraftPageA}

ProfileFailed == [status_code |-> 404, meta |-> FALSE, strong_tags |-> <<>>]

ProfileNoMeta == [status_code |-> 200, meta |-> FALSE, strong_tags |-> <<>>]

ProfilePointGuard ==
    [status_code |-> 200, meta |-> TRUE,
     strong_tags |-> << [label |-> "Position:", parent_text |-> "Position: Point Guard - Shoots: Right"],
                        [label |-> "Shoots:", parent_text |-> "Position: Point Guard - Shoots: Right"],
                        [label |-> "Height:", parent_text |-> "Height: 6-3 (190cm)"] >>]

ProfileForward ==
    [status_code |-> 200, meta |-> TRUE,
     strong_tags |-> << [label |-> "Position:", parent_text |-> "Position: Power Forward"],
                        [label |-> "Height:", parent_text |-> "Height: 6-9"] >>]

\* a guard whose page gives no height
ProfileGuardNoHeight ==
    [status_code |-> 200, meta |-> TRUE,
     strong_tags |-> << [label |-> "Position:", parent_text |-> "Position: Shooting Guard"] >>]

\* a point guard whose page gives no height
ProfilePointGuardNoHeight ==
    [status_code |-> 200, meta |-> TRUE,
     strong_tags |-> << [label |-> "Position:", parent_text |-> "Position: PG"] >>]

ProfileResponses ==
    {ProfileFailed, ProfileNoMeta, ProfilePointGuard, ProfileForward, ProfileGuardNoHeight,
     ProfilePointGuardNoHeight}

\* the profile of a row without a link: never requested
NotFetched == [status_code |-> 0, meta |-> FALSE, strong_tags |-> <<>>]

\* scrape_player_details and is_point_guard on each answer of ProfileResponses,
\* computed once: <<answer, details, is_pg>>
PlayerDetails ==
    {<<resp, scrape_player_details(resp), is_point_guard(scrape_player_details(resp).position)>> :
        resp \in ProfileResponses}

DetailsOf(resp) == CHOOSE e \in PlayerDetails : e[1] = resp

\* a plausible slip: a profile that cannot be read ends the loop, and the rows
\* after it are left without attributes
EnrichRowsStoppingAtFailure(all_rows, profiles) ==
    [i \in DOMAIN all_rows |->
        LET r == all_rows[i]
            stopped == \E j \in 1..i : all_rows[j].player_link # None
                                       /\ DetailsOf(profiles[j])[2].position = None
                                       /\ DetailsOf(profiles[j])[2].height_inches = None
            fetched == r.player_link # None /\ ~stopped
        IN  [year |-> r.year, pick |-> r.pick, team |-> r.team,
             player_name |-> r.player_name, player_link |-> r.player_link,
             position_str |-> IF fetched THEN DetailsOf(profiles[i])[2].position ELSE None,
             height_inches |-> IF fetched THEN DetailsOf(profiles[i])[2].height_inches ELSE None,
             is_pg |-> IF fetched THEN DetailsOf(profiles[i])[3] ELSE is_point_guard(None)]]

\* for idx, r in df.iterrows() and the three column assignments: profiles[i]
\* is the answer to the request for row i's profile
EnrichRows(all_rows, profiles) ==
    [i \in DOMAIN all_rows |->
        LET r == all_rows[i]
            fetched == r.player_link # None
        IN  [year |-> r.year, pick |-> r.pick, team |-> r.team,
             player_name |-> r.player_name, player_link |-> r.player_link,
             position_str |-> IF fetched THEN DetailsOf(profiles[i])[2].position ELSE None,
             height_inches |-> IF fetched THEN DetailsOf(profiles[i])[2].height_inches ELSE None,
             is_pg |-> IF fetched THEN DetailsOf(profiles[i])[3] ELSE is_point_guard(None)]]

\* a plausible slip: the new frame is added to the one in the session
StoreDatasetMerging(old, df) == IF old = None THEN Some(df) ELSE Some(old[1] \o df)

\* st.session_state.df_master = df
StoreDataset(old, df) == Some(df)

\* if "chat_history" not in st.session_state: st.session_state.chat_history = []
EnsureChatHistory(history) == IF history = None THEN Some(<<>>) ELSE history

\* the draft years the slider is moved over: a window of its 1980..2023
SliderYears == 1999..2000

\* lines 199-230 for every range of the slider and every answer of the site:
\* the year loop, then the return of lines 208-210 when it retrieved no row,
\* or else the frame with its three new columns; log records the run
BuildRuns ==
    UNION { UNION {
        LET lo == year_range[1]
            hi == year_range[2]
            scraped == ScrapeYears(lo, hi, web, <<>>, <<>>)
            all_rows == scraped.all_rows
            linked == {i \in DOMAIN all_rows : all_rows[i].player_link # None}
        IN  IF scraped.raised THEN {[outcome |-> "raised"]}
            ELSE IF all_rows = <<>> THEN {[outcome |-> "no_data"]}
            ELSE {LET profiles == [i \in DOMAIN all_rows |->
                                      IF i \in linked THEN answers[i] ELSE NotFetched]
                  IN  [outcome |-> "stored",
                       df |-> EnrichRows(all_rows, profiles),
                       log |-> [outcome |-> "stored", year_range |-> <<lo, hi>>,
                                visited |-> scraped.visited,
                                web |-> web, profiles |-> profiles]] :
                  answers \in [linked -> ProfileResponses]} :
        web \in [year_range[1]..year_range[2] -> DraftResponses]} :
        year_range \in {r \in SliderYears \X SliderYears : r[1] <= r[2]} }

\* a click on the button: one such run, and line 232 when it made a frame
Build ==
    \E run \in BuildRuns :
        IF run.outcome # "stored"
        THEN /\ last_build' = [outcome |-> run.outcome]
             /\ UNCHANGED <<df_master, chat_history, last_stored, call>>
        ELSE /\ df_master' = StoreDataset(df_master, run.df)
             /\ chat_history' = EnsureChatHistory(chat_history)
             /\ last_build' = run.log
             /\ last_stored' = run.log
             /\ UNCHANGED call

(***************************************************************************)
(* main: the click on "Send"                                               *)
(*                                                                         *)
(* A chat entry is <<role, msg>>.  The user's msg is the question; the     *)
(* bot's msg is the tuple of the pieces of its text, the formatted values  *)
(* of an f-string standing as the values themselves.                       *)
(***************************************************************************)
NoYearMsg == <<"No specific year found in question. Displaying results for **all scraped years**.">>

RangeMsg(year_min, year_max) ==
    <<"I detected a year range from ", year_min, " to ", year_max,
      ". Computing results for that range.">>

NoPointGuardsAnswer ==
    <<"No point guards were found in that range or the data might be incomplete.">>

\* results.head(5)
TopCount == 5

Head5(results) == SubSeq(results, 1, IF Len(results) < TopCount THEN Len(results) ELSE TopCount)

\* one element of top_strings: the fields of its f-string; avg_in // 12 and
\* avg_in % 12, truncated by int(), on the fraction avg_in
TopString(row) ==
    LET avg_in == row.avg_height_in IN
    [team |-> row.team,
     avg_in |-> avg_in,
     ft_part |-> (avg_in.num \div avg_in.den) \div 12,
     in_part |-> (avg_in.num \div avg_in.den) % 12,
     count |-> row.count_pgs]

TopAnswer(top_results) ==
    <<"**Top 5 teams by average PG height:**", [i \in DOMAIN top_results |-> TopString(top_results[i])]>>

\* the range message and the ranking of lines 264-277
RangeStep(df, parse_result) ==
    IF ~parse_result.found_year_range
    THEN [st_msg |-> NoYearMsg,
          results |-> get_avg_pg_height_by_team(df, None, None)]
    ELSE [st_msg |-> RangeMsg(parse_result.year_min[1], parse_result.year_max[1]),
          results |-> get_avg_pg_height_by_team(df, parse_result.year_min, parse_result.year_max)]

\* a plausible slip: an empty ranking is answered with nothing
AnswerEntriesSilentOnEmpty(results) ==
    IF results = <<>> THEN <<>>
    ELSE IF \E i \in DOMAIN Head5(results) : RowIsNaN(Head5(results)[i]) THEN <<>>
    ELSE << <<"assistant", TopAnswer(Head5(results))>> >>

\* the entries lines 279-297 append: none when int() is given a NaN mean and
\* raises ValueError before the answer is appended
AnswerEntries(results) ==
    IF results = <<>> THEN << <<"assistant", NoPointGuardsAnswer>> >>
    ELSE IF \E i \in DOMAIN Head5(results) : RowIsNaN(Head5(results)[i]) THEN <<>>
    ELSE << <<"assistant", TopAnswer(Head5(results))>> >>

\* the entries a click on "Send" appends to the chat history
SendEntries(df, user_input) ==
    LET question == Strip(user_input)
        step == RangeStep(df, parse_user_question(question))
    IN  << <<"user", question>>, <<"assistant", step.st_msg>> >> \o AnswerEntries(step.results)

UserInputs ==
    {"top teams", " PGs in 2000? ", "from 2000 to 1999", "in 1980"}

MaxSends == 1

UserEntry(e) == e[1] = "user"

\* lines 237-239: without a data frame the script returns before the chat
Send ==
    /\ df_master # None
    /\ Len(SelectSeq(EnsureChatHistory(chat_history)[1], UserEntry)) < MaxSends
    /\ \E user_input \in UserInputs :
          chat_history' = Some(EnsureChatHistory(chat_history)[1]
                               \o SendEntries(df_master[1], user_input))
    /\ UNCHANGED <<df_master, last_build, last_stored, call>>

Init == SessionInit /\ call = NoCall

Next == Build \/ Send

Spec == Init /\ [][Next]_vars

(***************************************************************************)
(* The claims about the build and the chat.                                *)
(***************************************************************************)
\* the draft columns of a row of the data frame
DraftColumns(r) ==
    [year |-> r.year, pick |-> r.pick, team |-> r.team,
     player_name |-> r.player_name, player_link |-> r.player_link]

\* whether the request for a year's draft page got a table to read
YearReadable(resp) == resp.status_code = 200 /\ resp.table

RECURSIVE RowsOfYears(_, _, _)
\* the normalized rows of the years y..last, year after year
RowsOfYears(y, last, web) ==
    IF y > last THEN <<>>
    ELSE (IF YearReadable(web[y]) THEN scrape_draft_data(y, web[y]).rows ELSE <<>>)
         \o RowsOfYears(y + 1, last, web)

(* C7: a build over an inclusive year range requests each year once, in
   increasing order, and the data frame it stores is, year after year and in
   table order within a year, the normalized rows of the pages it got; a year
   whose request fails or whose page has no table adds no row and the years
   after it are still read. *)
C7_YearsInOrder ==
    (df_master # None /\ last_stored.outcome = "stored") =>
        LET lo == last_stored.year_range[1]
            hi == last_stored.year_range[2]
            df == df_master[1]
        IN  /\ last_stored.visited = [k \in 1..(hi - lo + 1) |-> lo + k - 1]
            /\ [i \in DOMAIN df |-> DraftColumns(df[i])] = RowsOfYears(lo, hi, last_stored.web)
            /\ \A y \in lo..hi :
                  ~YearReadable(last_stored.web[y]) => \A i \in DOMAIN df : df[i].year # y

C7_Witness ==
    /\ df_master # None
    /\ last_stored.outcome = "stored"
    /\ last_stored.year_range = <<1999, 2000>>
    /\ last_stored.web[1999] = DraftFailed
    /\ last_stored.web[2000] = DraftPageA
    /\ Len(df_master[1]) = 2
    /\ df_master[1][1].year = 2000
    /\ df_master[1][1].pick = "1"
    /\ df_master[1][2].pick = "2"

(* C8: in the stored data frame every record's is_pg is is_point_guard of its
   position_str; a record without a profile link, or whose profile request
   fails or whose profile has no "meta" block, has no position, no height and
   is_pg false; and every other record carries what its own profile gives,
   whatever happened to the records before it. *)
C8_Enrichment ==
    (df_master # None /\ last_stored.outcome = "stored") =>
        LET df == df_master[1]
            profiles == last_stored.profiles
        IN  /\ DOMAIN profiles = DOMAIN df
            /\ \A i \in DOMAIN df :
                  LET r == df[i]
                      unread == \/ r.player_link = None
                                \/ profiles[i].status_code # 200
                                \/ ~profiles[i].meta
                  IN  /\ r.is_pg = is_point_guard(r.position_str)
                      /\ unread => /\ r.position_str = None
                                   /\ r.height_inches = None
                                   /\ r.is_pg = FALSE
                      /\ ~unread =>
                            /\ r.position_str = scrape_player_details(profiles[i]).position
                            /\ r.height_inches = scrape_player_details(profiles[i]).height_inches

C8_Witness ==
    /\ df_master # None
    /\ last_stored.outcome = "stored"
    /\ Len(df_master[1]) = 4
    /\ last_stored.profiles[1] = ProfileFailed
    /\ df_master[1][1].position_str = None
    /\ df_master[1][2].player_link = None
    /\ ~df_master[1][2].is_pg
    /\ df_master[1][3].position_str = Some("Point Guard - Shoots: Right")
    /\ df_master[1][3].height_inches = Some(75)
    /\ df_master[1][3].is_pg

\* the data frame the build recorded in log made
ProducedBy(log) ==
    EnrichRows(RowsOfYears(log.year_range[1], log.year_range[2], log.web), log.profiles)

\* the number of rows of df for the draft year y
RowsOfYear(df, y) == Cardinality({i \in DOMAIN df : df[i].year = y})

(* C9, as amended: the stored data frame is replaced wholesale by a build that
   retrieves at least one draft row: it consists of exactly the records of the
   most recent such build, none carried over or merged in from an earlier one,
   so that building an overlapping year range again adds no duplicate.  (A
   build that retrieves no row, or that fails, leaves the stored data frame
   as it was.) *)
C9_ReplacedByStoringBuild ==
    (df_master # None) =>
        /\ last_stored.outcome = "stored"
        /\ df_master[1] = ProducedBy(last_stored)
        /\ \A y \in SliderYears :
              RowsOfYear(df_master[1], y) =
                  IF y \in DOMAIN last_stored.web
                  THEN Len(RowsOfYears(y, y, last_stored.web))
                  ELSE 0

(* C9, as claimed: after any sequence of builds the stored data frame consists
   only of the records produced by the most recent build. *)
C9_ReplacedByLatestBuild ==
    (df_master # None) =>
        /\ last_build.outcome = "stored"
        /\ df_master[1] = ProducedBy(last_build)

\* a question was answered over two point guards, and a later build of the
\* single year 2000, a year of that earlier range, has replaced the data frame
C9_Witness ==
    /\ df_master # None
    /\ last_stored.outcome = "stored"
    /\ last_stored.year_range = <<2000, 2000>>
    /\ Len(df_master[1]) = 2
    /\ chat_history # None
    /\ Len(chat_history[1]) = 3
    /\ Len(chat_history[1][3][2]) = 2
    /\ chat_history[1][3][2][2][1].count = 2

Entries(history) == IF history = None THEN <<>> ELSE history[1]

\* no record of df is a point guard of a year within the range of question
NoneQualifies(df, question) ==
    LET parsed == parse_user_question(question) IN
    \A i \in DOMAIN df :
        ~(/\ df[i].is_pg
          /\ parsed.found_year_range =>
                /\ df[i].year >= parsed.year_min[1]
                /\ df[i].year <= parsed.year_max[1])

\* msg is the range message for question
IsRangeMsg(msg, question) ==
    LET parsed == parse_user_question(question) IN
    IF parsed.found_year_range
    THEN msg = RangeMsg(parsed.year_min[1], parsed.year_max[1])
    ELSE msg = NoYearMsg

(* C10: while no data frame is stored no step adds an entry to the chat
   transcript; with one stored, a step that adds entries adds first the user's
   question, and when no point guard of the data frame qualifies for that
   question it adds exactly the question, the range message and the "no point
   guards" answer, and leaves the stored data frame as it is. *)
C10_EmptyResultIsAnAnswer ==
    [][ LET old == Entries(chat_history)
            new == Entries(chat_history')
        IN  /\ df_master = None => new = old
            /\ new # old =>
                  /\ df_master # None
                  /\ Len(new) >= Len(old) + 2
                  /\ SubSeq(new, 1, Len(old)) = old
                  /\ new[Len(old) + 1][1] = "user"
                  /\ NoneQualifies(df_master[1], new[Len(old) + 1][2]) =>
                        /\ Len(new) = Len(old) + 3
                        /\ new[Len(old) + 2][1] = "assistant"
                        /\ IsRangeMsg(new[Len(old) + 2][2], new[Len(old) + 1][2])
                        /\ new[Len(old) + 3] = <<"assistant", NoPointGuardsAnswer>>
                        /\ df_master' = df_master
      ]_vars

C10_Witness ==
    /\ df_master # None
    /\ chat_history # None
    /\ Len(chat_history[1]) = 3
    /\ chat_history[1][1] = <<"user", "in 1980">>
    /\ chat_history[1][2] = <<"assistant", RangeMsg(1980, 1980)>>
    /\ chat_history[1][3] = <<"assistant", NoPointGuardsAnswer>>
    /\ \E i \in DOMAIN df_master[1] : df_master[1][i].is_pg

====
